---- MODULE Spec2Model ----
(***************************************************************************)
(* leafwing_2d: the synchronization of Direction, Rotation, Position<C>    *)
(* and the host Transform (src/src/plugin.rs) and the Position conversions *)
(* (src/src/position.rs).                                                  *)
(*                                                                         *)
(* Change detection is modelled by one bit per (reading system, component):*)
(* the bit says that the component was written after the system last ran.  *)
(* A write sets the bit for every system (the writer sees its own write    *)
(* for the rest of its run); a system's bits are cleared when its run ends.*)
(* Floats are counted in halves (2 stands for 1.0), unit vectors and       *)
(* quaternions in thousandths.                                             *)
(***************************************************************************)
EXTENDS Integers, FiniteSets, Sequences, TLC

VARIABLES has, val, dirty, kinematics, kinematics_state, current_state,
          phase, ran, cycleWrites, noops, obs, settled, budget, calc, iter

vars == <<has, val, dirty, kinematics, kinematics_state, current_state,
          phase, ran, cycleWrites, noops, obs, settled, budget, calc, iter>>

\* ---------------------------------------------------------------- bounds
\* user operations (component writes, state changes) in one behaviour
MaxUserOps == 2
\* the cap of the count of cycles completed since the last external mutation
MaxSettled == 4
\* the largest value of the (narrow, discrete) coordinate type C
CMax == 1

Entities == {"e1"}

\* ------------------------------------------------------------ orientation
NORTH == 0
EAST == 900
SOUTH == 1800
WEST == 2700
FullTurn == 3600

Rotations == {NORTH, EAST, SOUTH, WEST}

\* sine of k * 45 degrees, in thousandths
SinTab == <<0, 707, 1000, 707, 0, -707, -1000, -707>>
Sin45(k) == SinTab[(k % 8) + 1]
Cos45(k) == Sin45(k + 2)

\* Rotation -> Direction: the unit vector of a clockwise angle from north
DirectionFromRotation(r) == <<Sin45(r \div 450), Cos45(r \div 450)>>

Directions == {DirectionFromRotation(r) : r \in Rotations}

\* Direction -> Rotation: the angle of the vector (atan2 of x over y)
RotationFromDirection(d) ==
    CHOOSE r \in Rotations : DirectionFromRotation(r) = d

\* Rotation -> Quat: a rotation about z by the angle, <<x, y, z, w>>
QuatFromRotation(r) == <<0, 0, -Sin45(r \div 900), Cos45(r \div 900)>>

QuatFromDirection(d) == QuatFromRotation(RotationFromDirection(d))

\* a host rotation with an off-plane part (a quarter turn about x)
TiltedQuat == <<707, 0, 0, 707>>
\* a host rotation with an off-plane part whose planar angle is EAST
TiltedEastQuat == <<500, -500, -500, 500>>

Quats == {QuatFromRotation(r) : r \in Rotations} \cup {TiltedQuat, TiltedEastQuat}

\* Quat -> Rotation: the planar angle, off-plane parts discarded; an error
\* when nothing planar is left
RotationFromQuat(q) ==
    IF q[3] = 0 /\ q[4] = 0
    THEN [ok |-> FALSE, val |-> NORTH]
    ELSE [ok |-> TRUE,
          val |-> CHOOSE r \in Rotations :
                     LET p == QuatFromRotation(r)
                     IN  /\ p[3] * q[4] = p[4] * q[3]
                         /\ p[3] * q[3] + p[4] * q[4] > 0]

\* Quat -> Direction: total
DirectionFromQuat(q) == DirectionFromRotation(RotationFromQuat(q).val)

\* -------------------------------------------------------------- coordinate
Coords == 0..CMax

\* C -> f32 (Into<f32>): lossless
IntoF32(c) == 2 * c

\* Coordinate::try_from_f32: rounds, fails outside the range of C
try_from_f32(float) ==
    LET rounded == (float + 1) \div 2
    IN  IF rounded \in Coords
        THEN [ok |-> TRUE, val |-> rounded]
        ELSE [ok |-> FALSE, val |-> 0]

\* the floats a user writes into a translation: 0.0, 0.5, CMax and CMax + 1
UserFloats == {0, 1, IntoF32(CMax), IntoF32(CMax + 1)}
Depths == {0, 2}

\* ------------------------------------------------------------------ state
Components == {"R", "D", "P", "T"}
Fields == {"R", "D", "Px", "Py", "Tq", "Tx", "Ty", "Tz"}

CompOf(f) ==
    CASE f = "R" -> "R"
      [] f = "D" -> "D"
      [] f \in {"Px", "Py"} -> "P"
      [] OTHER -> "T"

\* the change flags the two systems read
ReadFlags == {<<"SDR", "R">>, <<"SDR", "D">>,
              <<"ST", "T">>, <<"ST", "R">>, <<"ST", "D">>, <<"ST", "P">>}

\* the component sets an entity is spawned with
Archetypes == {{"T", "R", "D", "P"}, {"T", "D"}, {"T", "R"}, {"T", "P"}}

\* TwoDBundle::default() and Transform::identity()
DefaultVal == [R |-> NORTH, D |-> DirectionFromRotation(NORTH),
               Px |-> 0, Py |-> 0,
               Tq |-> QuatFromRotation(NORTH), Tx |-> 0, Ty |-> 0, Tz |-> 0,
               Vx |-> 0, Vy |-> 0, Av |-> 0]

\* DerefMut of a component: every reading system sees it as changed
Mark(d, comp) == d \cup {fl \in ReadFlags : fl[2] = comp}

\* an assignment through a change-detecting cell by system sys; n keeps the
\* assignments that stored the value the field already held
Assign(st, sys, f, v) ==
    [v |-> [st.v EXCEPT ![f] = v],
     d |-> Mark(st.d, CompOf(f)),
     w |-> st.w \cup {<<sys, f>>},
     n |-> IF st.v[f] = v THEN st.n \cup {<<sys, f>>} ELSE st.n]

Changed(st, sys, comp) == <<sys, comp>> \in st.d

Cell(e) == [v |-> val[e], d |-> dirty[e], w |-> {}, n |-> {}]

\* the end of a system's run: its last_change_tick moves past every write
ClearFlags(d, sys) == {fl \in d : fl[1] # sys}

\* no function of position.rs has been called
NoCall == [fn |-> "none"]

\* no loop over a query is followed entity by entity
NoPass == [sys |-> "off"]

Configs == {[k |-> FALSE, s |-> "None"],
            [k |-> FALSE, s |-> "Playing"],
            [k |-> TRUE, s |-> "None"],
            [k |-> TRUE, s |-> "Playing"]}

\* the App after the plugin is added and the entities are spawned
InitApp ==
    /\ has \in [Entities -> Archetypes]
    /\ val = [e \in Entities |-> DefaultVal]
    /\ dirty = [e \in Entities |-> {fl \in ReadFlags : fl[2] \in has[e]}]
    /\ \E c \in Configs : kinematics = c.k /\ kinematics_state = c.s
    /\ current_state = "Playing"
    /\ phase = "user"
    /\ ran = {}
    /\ cycleWrites = {}
    /\ noops = {}
    /\ obs = [e \in Entities |-> {}]
    /\ settled = 0
    /\ budget = MaxUserOps

Init == InitApp /\ calc = NoCall /\ iter = NoPass

\* ------------------------------------------------- sync_direction_and_rotation
\* the body with the two branches swapped: Direction would win
SyncDirRotEntity_DirectionFirst(st) ==
    IF Changed(st, "SDR", "D")
    THEN LET new_rotation == RotationFromDirection(st.v.D)
         IN  IF st.v.R # new_rotation
             THEN Assign(st, "SDR", "R", new_rotation)
             ELSE st
    ELSE IF Changed(st, "SDR", "R")
    THEN LET new_direction == DirectionFromRotation(st.v.R)
         IN  IF st.v.D # new_direction
             THEN Assign(st, "SDR", "D", new_direction)
             ELSE st
    ELSE st

\* the body without the change flags and without the comparison: Direction
\* is recomputed from Rotation on every run
SyncDirRotEntity_Unflagged(st) ==
    Assign(st, "SDR", "D", DirectionFromRotation(st.v.R))

\* the body without its else branch: a changed Direction is never converted
SyncDirRotEntity_RotationOnly(st) ==
    IF Changed(st, "SDR", "R")
    THEN LET new_direction == DirectionFromRotation(st.v.R)
         IN  IF st.v.D # new_direction
             THEN Assign(st, "SDR", "D", new_direction)
             ELSE st
    ELSE st

\* the body of the loop, for one entity of Query<(&mut Direction, &mut Rotation)>
SyncDirRotEntity(st) ==
    IF Changed(st, "SDR", "R")
    THEN LET new_direction == DirectionFromRotation(st.v.R)
         IN  IF st.v.D # new_direction
             THEN Assign(st, "SDR", "D", new_direction)
             ELSE st
    ELSE IF Changed(st, "SDR", "D")
    THEN LET new_rotation == RotationFromDirection(st.v.D)
         IN  IF st.v.R # new_rotation
             THEN Assign(st, "SDR", "R", new_rotation)
             ELSE st
    ELSE st

MatchesSyncDirRot(h) == {"D", "R"} \subseteq h

\* ------------------------------------------------------ sync_transform_with_2d
\* Or<(With<Rotation>, With<Position<C>>)> over entities with a Transform
MatchesSyncTransform(h) == "T" \in h /\ ("R" \in h \/ "P" \in h)

\* the Rotation channel without its pull: a changed Transform is ignored
SyncRotationChannel_PushOnly(st, h) ==
    IF "R" \notin h THEN st
    ELSE IF Changed(st, "ST", "R")
    THEN LET new_quat == QuatFromRotation(st.v.R)
         IN  IF st.v.Tq # new_quat
             THEN Assign(st, "ST", "Tq", new_quat)
             ELSE st
    ELSE st

\* Synchronize Rotation with Transform
SyncRotationChannel(st, h) ==
    IF "R" \notin h THEN st
    ELSE IF Changed(st, "ST", "R")
    THEN LET new_quat == QuatFromRotation(st.v.R)
         IN  IF st.v.Tq # new_quat
             THEN Assign(st, "ST", "Tq", new_quat)
             ELSE st
    ELSE IF Changed(st, "ST", "T")
    THEN LET res == RotationFromQuat(st.v.Tq)
         IN  IF res.ok /\ st.v.R # res.val
             THEN Assign(st, "ST", "R", res.val)
             ELSE st
    ELSE st

\* the Direction channel pulling the host rotation with the turn reversed
\* (counterclockwise taken for clockwise)
SyncDirectionChannel_Reversed(st, h) ==
    LET pulled == <<-DirectionFromQuat(st.v.Tq)[1], DirectionFromQuat(st.v.Tq)[2]>>
    IN  IF "D" \notin h THEN st
        ELSE IF Changed(st, "ST", "D")
        THEN LET new_quat == QuatFromDirection(st.v.D)
             IN  IF st.v.Tq # new_quat
                 THEN Assign(st, "ST", "Tq", new_quat)
                 ELSE st
        ELSE IF Changed(st, "ST", "T") /\ st.v.D # pulled
        THEN Assign(st, "ST", "D", pulled)
        ELSE st

\* Synchronize Direction with Transform
SyncDirectionChannel(st, h) ==
    IF "D" \notin h THEN st
    ELSE IF Changed(st, "ST", "D")
    THEN LET new_quat == QuatFromDirection(st.v.D)
         IN  IF st.v.Tq # new_quat
             THEN Assign(st, "ST", "Tq", new_quat)
             ELSE st
    ELSE IF Changed(st, "ST", "T") /\ st.v.D # DirectionFromQuat(st.v.Tq)
    THEN Assign(st, "ST", "D", DirectionFromQuat(st.v.Tq))
    ELSE st

\* the push of an axis without the comparison with the stored float
PushAxis_Unchecked(st, pf, tf) == Assign(st, "ST", tf, IntoF32(st.v[pf]))

\* Position changed: each axis is pushed into the translation
PushAxis(st, pf, tf) ==
    LET new == IntoF32(st.v[pf])
    IN  IF st.v[tf] # new THEN Assign(st, "ST", tf, new) ELSE st

\* Transform changed: an axis is pulled from the float it is converted from;
\* a failed conversion is logged and the axis skipped
PullAxis(st, pf, float) ==
    LET res == try_from_f32(float)
    IN  IF res.ok
        THEN IF st.v[pf] # res.val THEN Assign(st, "ST", pf, res.val) ELSE st
        ELSE st

\* the float that position.y is converted from (plugin.rs line 299)
PullYSource(v) == v.Tx

\* the Position channel pushing the whole Vec3 of the Position, whose z is 0.0
SyncPositionChannel_WholeVec3(st, h) ==
    IF "P" \notin h THEN st
    ELSE IF Changed(st, "ST", "P")
    THEN LET pushed == PushAxis(PushAxis(st, "Px", "Tx"), "Py", "Ty")
         IN  IF pushed.v.Tz # 0 THEN Assign(pushed, "ST", "Tz", 0) ELSE pushed
    ELSE IF Changed(st, "ST", "T")
    THEN LET sx == PullAxis(st, "Px", st.v.Tx)
         IN  PullAxis(sx, "Py", PullYSource(sx.v))
    ELSE st

\* Synchronize Position with Transform
SyncPositionChannel(st, h) ==
    IF "P" \notin h THEN st
    ELSE IF Changed(st, "ST", "P")
    THEN PushAxis(PushAxis(st, "Px", "Tx"), "Py", "Ty")
    ELSE IF Changed(st, "ST", "T")
    THEN LET sx == PullAxis(st, "Px", st.v.Tx)
         IN  PullAxis(sx, "Py", PullYSource(sx.v))
    ELSE st

\* the body of the loop, for one entity
SyncTransformEntity(st, h) ==
    SyncPositionChannel(SyncDirectionChannel(SyncRotationChannel(st, h), h), h)

\* ----------------------------------------------------------------- schedule
\* the run criteria without the comparison of the state: the set runs whenever
\* the plugin's kinematics flag is set
KinematicsShouldRun_IgnoresState == kinematics

\* the run criteria of the kinematics set (plugin.rs lines 168, 179-192)
KinematicsShouldRun ==
    kinematics /\ (kinematics_state = "None" \/ current_state = kinematics_state)

KinematicsSystems == {"LinKin", "AngKin"}

\* the systems of TwoDSystem::Kinematics carry .before(SyncDirectionRotation)
MustPrecede(sys) ==
    IF sys = "SDR" /\ KinematicsShouldRun THEN KinematicsSystems ELSE {}

CanStart(sys) ==
    /\ phase = "stage"
    /\ sys \notin ran
    /\ MustPrecede(sys) \subseteq ran

Observe(sys) ==
    [e \in Entities |-> obs[e] \cup {fl \in dirty[e] : fl[1] = sys}]

\* the effect of a reconciling system, given the result of its loop body for
\* every entity (out[e] = Cell(e) for an entity its query does not match)
RunOver(sys, out) ==
    /\ val' = [e \in Entities |-> out[e].v]
    /\ dirty' = [e \in Entities |-> ClearFlags(out[e].d, sys)]
    /\ cycleWrites' = cycleWrites \cup
           UNION {{<<e, w[1], w[2]>> : w \in out[e].w} : e \in Entities}
    /\ noops' = noops \cup
           UNION {{<<e, w[1], w[2]>> : w \in out[e].n} : e \in Entities}
    /\ obs' = Observe(sys)
    /\ ran' = ran \cup {sys}

sync_direction_and_rotation ==
    /\ CanStart("SDR")
    /\ RunOver("SDR", [e \in Entities |->
                         IF MatchesSyncDirRot(has[e])
                         THEN SyncDirRotEntity(Cell(e))
                         ELSE Cell(e)])
    /\ UNCHANGED <<iter, calc, has, kinematics, kinematics_state, current_state, phase,
                   settled, budget>>

sync_transform_with_2d ==
    /\ CanStart("ST")
    /\ RunOver("ST", [e \in Entities |->
                        IF MatchesSyncTransform(has[e])
                        THEN SyncTransformEntity(Cell(e), has[e])
                        ELSE Cell(e)])
    /\ UNCHANGED <<iter, calc, has, kinematics, kinematics_state, current_state, phase,
                   settled, budget>>

\* --------------------------------------------------------------- kinematics
\* linear_kinematics: position += velocity * dt, for every entity with a
\* Position and a Velocity; the write marks Position whatever the velocity
Integrated(v) == [v EXCEPT !.Px = @ + v.Vx, !.Py = @ + v.Vy]

\* the integrated position is still a value of the modelled coordinates
InRange(v) == Integrated(v).Px \in Coords /\ Integrated(v).Py \in Coords

linear_kinematics ==
    /\ KinematicsShouldRun
    /\ CanStart("LinKin")
    /\ \A e \in Entities : "P" \in has[e] => InRange(val[e])
    /\ val' = [e \in Entities |->
                  IF "P" \in has[e] THEN Integrated(val[e]) ELSE val[e]]
    /\ dirty' = [e \in Entities |->
                    IF "P" \in has[e] THEN Mark(dirty[e], "P") ELSE dirty[e]]
    /\ ran' = ran \cup {"LinKin"}
    /\ settled' = 0
    /\ UNCHANGED <<iter, calc, noops, has, kinematics, kinematics_state, current_state, phase,
                   cycleWrites, obs, budget>>

\* angular_kinematics: rotation += angular_velocity * dt, normalized to a turn
angular_kinematics ==
    /\ KinematicsShouldRun
    /\ CanStart("AngKin")
    /\ val' = [e \in Entities |->
                  IF "R" \in has[e]
                  THEN [val[e] EXCEPT !.R = (@ + val[e].Av) % FullTurn]
                  ELSE val[e]]
    /\ dirty' = [e \in Entities |->
                    IF "R" \in has[e] THEN Mark(dirty[e], "R") ELSE dirty[e]]
    /\ ran' = ran \cup {"AngKin"}
    /\ settled' = 0
    /\ UNCHANGED <<iter, calc, noops, has, kinematics, kinematics_state, current_state, phase,
                   cycleWrites, obs, budget>>

\* ------------------------------------------------------------------- cycles
StageSystems ==
    {"SDR", "ST"} \cup (IF KinematicsShouldRun THEN KinematicsSystems ELSE {})

\* app.update() reaches the plugin's stage
BeginCycle ==
    /\ phase = "user"
    /\ KinematicsShouldRun => \A e \in Entities : "P" \in has[e] => InRange(val[e])
    /\ phase' = "stage"
    /\ ran' = {}
    /\ cycleWrites' = {}
    /\ obs' = [e \in Entities |-> {}]
    /\ UNCHANGED <<iter, calc, noops, has, val, dirty, kinematics, kinematics_state, current_state,
                   settled, budget>>

\* every system of the stage has run
EndCycle ==
    /\ phase = "stage"
    /\ ran = StageSystems
    /\ phase' = "user"
    /\ settled' = IF settled < MaxSettled THEN settled + 1 ELSE settled
    /\ UNCHANGED <<iter, calc, noops, has, val, dirty, kinematics, kinematics_state, current_state,
                   ran, cycleWrites, obs, budget>>

\* ------------------------------------------------------- the user's systems
\* a write through Mut<T> outside the plugin's stage; equal values mark too
UserWrite(e, f, v) ==
    /\ phase = "user"
    /\ budget > 0
    /\ CompOf(f) \in has[e]
    /\ val' = [val EXCEPT ![e][f] = v]
    /\ dirty' = [dirty EXCEPT ![e] = Mark(@, CompOf(f))]
    /\ budget' = budget - 1
    /\ settled' = 0
    /\ UNCHANGED <<iter, calc, noops, has, kinematics, kinematics_state, current_state, phase, ran,
                   cycleWrites, obs>>

UserSetRotation == \E e \in Entities, r \in Rotations : UserWrite(e, "R", r)

UserSetDirection == \E e \in Entities, d \in Directions : UserWrite(e, "D", d)

UserSetPosition ==
    \E e \in Entities, f \in {"Px", "Py"}, c \in Coords : UserWrite(e, f, c)

UserSetTransformRotation == \E e \in Entities, q \in Quats : UserWrite(e, "Tq", q)

UserSetTranslation ==
    \/ \E e \in Entities, f \in {"Tx", "Ty"}, x \in UserFloats : UserWrite(e, f, x)
    \/ \E e \in Entities, z \in Depths : UserWrite(e, "Tz", z)

\* a write to Velocity<C> or AngularVelocity, which no system of the plugin
\* reads a change flag of
UserSetVelocity ==
    /\ phase = "user"
    /\ budget > 0
    /\ \E e \in Entities :
          \/ /\ "P" \in has[e]
             /\ \E f \in {"Vx", "Vy"}, c \in Coords : val' = [val EXCEPT ![e][f] = c]
          \/ /\ "R" \in has[e]
             /\ \E a \in {NORTH, EAST} : val' = [val EXCEPT ![e].Av = a]
    /\ budget' = budget - 1
    /\ UNCHANGED <<iter, calc, noops, has, dirty, kinematics, kinematics_state, current_state, phase,
                   ran, cycleWrites, obs, settled>>

\* State<UserState>::set
UserSetState ==
    /\ phase = "user"
    /\ budget > 0
    /\ \E s \in {"Playing", "Paused"} : s # current_state /\ current_state' = s
    /\ budget' = budget - 1
    /\ UNCHANGED <<iter, calc, noops, has, val, dirty, kinematics, kinematics_state, phase, ran,
                   cycleWrites, obs, settled>>

Next ==
    \/ BeginCycle
    \/ linear_kinematics
    \/ angular_kinematics
    \/ sync_direction_and_rotation
    \/ sync_transform_with_2d
    \/ EndCycle
    \/ UserSetRotation
    \/ UserSetDirection
    \/ UserSetPosition
    \/ UserSetTransformRotation
    \/ UserSetTranslation
    \/ UserSetVelocity
    \/ UserSetState

Spec == Init /\ [][Next]_vars

\* the schedule TwoDSystem documents ("These labels are executed in sequence"):
\* SyncTransform only after SyncDirectionRotation
sync_transform_in_sequence == "SDR" \in ran /\ sync_transform_with_2d

NextSeq ==
    \/ BeginCycle
    \/ linear_kinematics
    \/ angular_kinematics
    \/ sync_direction_and_rotation
    \/ sync_transform_in_sequence
    \/ EndCycle
    \/ UserSetRotation
    \/ UserSetDirection
    \/ UserSetPosition
    \/ UserSetTransformRotation
    \/ UserSetTranslation
    \/ UserSetVelocity
    \/ UserSetState

SpecSeq == Init /\ [][NextSeq]_vars

\* ------------------------------------------------ Position<C> (position.rs)
\* the largest coordinate, by magnitude, of a position handed to a function
PosMax == 2

\* the coordinate types of the functions: f32 itself and OrthogonalGrid(isize)
CoordKinds == {"f32", "OrthogonalGrid"}

\* The floats of this section are counted in half epsilons, so that vectors
\* shorter than the epsilon of the singular conversion can be told from the
\* zero vector.  An f32 coordinate is such a count; 1.0 lies far above epsilon.
Epsilon == 2
OneF == 4

PosCoords == -PosMax..PosMax
Positions == [x : PosCoords, y : PosCoords]

\* #[derive(Default)] of Position<C>: both coordinates C::default()
PositionDefault == [x |-> 0, y |-> 0]

\* Into<f32> of the coordinate: f32 is itself, OrthogonalGrid is .0 as f32
CoordIntoF32(kind, c) == IF kind = "OrthogonalGrid" THEN c * OneF ELSE c

\* From<Position<C>> for Vec2
PositionIntoVec2(kind, p) == <<CoordIntoF32(kind, p.x), CoordIntoF32(kind, p.y)>>

Abs(n) == IF n < 0 THEN -n ELSE n
Sgn(n) == IF n < 0 THEN -1 ELSE IF n > 0 THEN 1 ELSE 0
ISqrt(n) == CHOOSE r \in 0..1000 : r * r <= n /\ n < (r + 1) * (r + 1)

\* Vec2::normalize, in thousandths
Normalize(v) ==
    LET len2 == v[1] * v[1] + v[2] * v[2]
    IN  <<Sgn(v[1]) * ISqrt((1000000 * v[1] * v[1]) \div len2),
          Sgn(v[2]) * ISqrt((1000000 * v[2] * v[2]) \div len2)>>

\* the angles whose tangent is t[1] / t[2], in tenths of a degree, for the
\* ratios of the deltas of two positions
AtanTable == {<<0, 1, 0>>, <<1, 6, 95>>, <<1, 5, 113>>, <<1, 4, 140>>,
              <<1, 3, 184>>, <<2, 5, 218>>, <<1, 2, 266>>, <<3, 5, 310>>,
              <<2, 3, 337>>, <<3, 4, 369>>, <<4, 5, 387>>, <<5, 6, 398>>,
              <<1, 1, 450>>, <<6, 5, 502>>, <<5, 4, 513>>, <<4, 3, 531>>,
              <<3, 2, 563>>, <<5, 3, 590>>, <<2, 1, 634>>, <<5, 2, 682>>,
              <<3, 1, 716>>, <<4, 1, 760>>, <<5, 1, 787>>, <<6, 1, 805>>,
              <<1, 0, 900>>}
AtanDeci(num, den) ==
    (CHOOSE t \in AtanTable : num * t[2] = den * t[1])[3]

\* the clockwise angle from north of a vector that is not zero
AngleOfVec(v) ==
    LET a == AtanDeci(Abs(v[1]), Abs(v[2]))
    IN  IF v[1] >= 0 /\ v[2] >= 0 THEN a % FullTurn
        ELSE IF v[1] >= 0 THEN 1800 - a
        ELSE IF v[2] < 0 THEN 1800 + a
        ELSE (FullTurn - a) % FullTurn

NearlySingular(v) == v[1] * v[1] + v[2] * v[2] < Epsilon * Epsilon

\* TryFrom<Vec2> for Direction: NearlySingularConversion below epsilon
Vec2TryIntoDirection(v) ==
    IF NearlySingular(v)
    THEN [ok |-> FALSE, val |-> <<0, 0>>]
    ELSE [ok |-> TRUE, val |-> Normalize(v)]

\* TryFrom<Vec2> for Rotation: NearlySingularConversion below epsilon
Vec2TryIntoRotation(v) ==
    IF NearlySingular(v)
    THEN [ok |-> FALSE, val |-> 0]
    ELSE [ok |-> TRUE, val |-> AngleOfVec(v)]

\* TryFrom<Position<C>> for Direction
PositionTryIntoDirection(kind, p) == Vec2TryIntoDirection(PositionIntoVec2(kind, p))

\* TryFrom<Position<C>> for Rotation
PositionTryIntoRotation(kind, p) == Vec2TryIntoRotation(PositionIntoVec2(kind, p))

\* Add<Position<C>> for Position<C>
add(self, rhs) == [x |-> self.x + rhs.x, y |-> self.y + rhs.y]

\* Sub<Position<C>> for Position<C>, with the operands of the y axis swapped
sub_YReversed(self, rhs) == [x |-> self.x - rhs.x, y |-> rhs.y - self.y]

\* Sub<Position<C>> for Position<C>
sub(self, rhs) == [x |-> self.x - rhs.x, y |-> self.y - rhs.y]

\* direction_to taking the sum of the positions for their difference
direction_to_Sum(kind, self, other_position) ==
    PositionTryIntoDirection(kind, add(other_position, self))

direction_to(kind, self, other_position) ==
    PositionTryIntoDirection(kind, sub(other_position, self))

\* direction_from taking the delta the other way round, as direction_to does
direction_from_Swapped(kind, self, other_position) ==
    PositionTryIntoDirection(kind, sub(other_position, self))

direction_from(kind, self, other_position) ==
    PositionTryIntoDirection(kind, sub(self, other_position))

rotation_from(kind, self, other_position) ==
    PositionTryIntoRotation(kind, sub(self, other_position))

\* impl DiscreteCoordinate for OrthogonalGrid (position.rs lines 296-321)
N_NEIGHBORS == 4
ZERO == 0
ORIGIN == [x |-> ZERO, y |-> ZERO]

\* neighbors with y growing downwards, as on a screen
neighbors_YDown(position) ==
    <<[x |-> position.x, y |-> position.y - 1],
      [x |-> position.x + 1, y |-> position.y],
      [x |-> position.x, y |-> position.y + 1],
      [x |-> position.x - 1, y |-> position.y]>>

neighbors(position) ==
    <<[x |-> position.x, y |-> position.y + 1],
      [x |-> position.x + 1, y |-> position.y],
      [x |-> position.x, y |-> position.y - 1],
      [x |-> position.x - 1, y |-> position.y]>>

\* DiscreteCoordinate::neighbor_directions: the map over neighbors(ORIGIN);
\* expect() panics on a failed conversion
neighbor_directions ==
    LET converted == [i \in 1..N_NEIGHBORS |->
                        PositionTryIntoDirection("OrthogonalGrid", neighbors(ORIGIN)[i])]
    IN  [panicked |-> \E i \in 1..N_NEIGHBORS : ~converted[i].ok,
         val |-> [i \in 1..N_NEIGHBORS |-> converted[i].val]]

\* FloatCoordinateConversionError
ConversionError == [ok |-> FALSE, val |-> PositionDefault]

\* TryFrom<Vec2> for Position<C>: the ? returns at the first axis that fails
PositionTryFromVec2(vec) ==
    LET x == try_from_f32(vec[1])
        y == try_from_f32(vec[2])
    IN  IF ~x.ok THEN ConversionError
        ELSE IF ~y.ok THEN ConversionError
        ELSE [ok |-> TRUE, val |-> [x |-> x.val, y |-> y.val]]

\* TryFrom<Vec3> for Position<C>
PositionTryFromVec3(vec) ==
    LET x == try_from_f32(vec[1])
        y == try_from_f32(vec[2])
    IN  IF ~x.ok THEN ConversionError
        ELSE IF ~y.ok THEN ConversionError
        ELSE [ok |-> TRUE, val |-> [x |-> x.val, y |-> y.val]]

\* TryFrom<Transform> converting translation.x for both axes
PositionTryFromTransform_XForY(transform) ==
    LET x == try_from_f32(transform.translation[1])
        y == try_from_f32(transform.translation[1])
    IN  IF ~x.ok THEN ConversionError
        ELSE IF ~y.ok THEN ConversionError
        ELSE [ok |-> TRUE, val |-> [x |-> x.val, y |-> y.val]]

\* TryFrom<Transform> for Position<C>
PositionTryFromTransform(transform) ==
    LET x == try_from_f32(transform.translation[1])
        y == try_from_f32(transform.translation[2])
    IN  IF ~x.ok THEN ConversionError
        ELSE IF ~y.ok THEN ConversionError
        ELSE [ok |-> TRUE, val |-> [x |-> x.val, y |-> y.val]]

\* TryFrom<GlobalTransform> for Position<C>
PositionTryFromGlobalTransform(transform) ==
    LET x == try_from_f32(transform.translation[1])
        y == try_from_f32(transform.translation[2])
    IN  IF ~x.ok THEN ConversionError
        ELSE IF ~y.ok THEN ConversionError
        ELSE [ok |-> TRUE, val |-> [x |-> x.val, y |-> y.val]]

\* ---------------------------------------------- calls of Position functions
\* the variables of the App, which no function of position.rs touches
app == <<has, val, dirty, kinematics, kinematics_state, current_state,
         phase, ran, cycleWrites, noops, obs, settled, budget>>

\* two positions of one coordinate type, about to be given to a function
PositionArgs == [fn : {"positions"}, kind : CoordKinds, a : Positions, b : Positions]

\* the result of a function of two positions
Returned(name, result) ==
    [fn |-> name, kind |-> calc.kind, a |-> calc.a, b |-> calc.b, out |-> result]

CallDirectionTo ==
    /\ calc.fn = "positions"
    /\ calc' = Returned("direction_to", direction_to(calc.kind, calc.a, calc.b))
    /\ UNCHANGED <<app, iter>>

CallDirectionFrom ==
    /\ calc.fn = "positions"
    /\ calc' = Returned("direction_from", direction_from(calc.kind, calc.a, calc.b))
    /\ UNCHANGED <<app, iter>>

CallRotationFrom ==
    /\ calc.fn = "positions"
    /\ calc' = Returned("rotation_from", rotation_from(calc.kind, calc.a, calc.b))
    /\ UNCHANGED <<app, iter>>

CallAdd ==
    /\ calc.fn = "positions"
    /\ calc' = Returned("add", add(calc.a, calc.b))
    /\ UNCHANGED <<app, iter>>

CallSub ==
    /\ calc.fn = "positions"
    /\ calc' = Returned("sub", sub(calc.a, calc.b))
    /\ UNCHANGED <<app, iter>>

CallNeighbors ==
    /\ calc.fn = "positions"
    /\ calc.kind = "OrthogonalGrid"
    /\ calc' = Returned("neighbors", neighbors(calc.a))
    /\ UNCHANGED <<app, iter>>

CallNeighborDirections ==
    /\ calc.fn = "positions"
    /\ calc.kind = "OrthogonalGrid"
    /\ calc' = Returned("neighbor_directions", neighbor_directions)
    /\ UNCHANGED <<app, iter>>

\* a translation, as a Vec3, about to be converted into a Position
VectorArgs == [fn : {"vector"}, vec : UserFloats \X UserFloats \X Depths]

Converted(name, result) == [fn |-> name, vec |-> calc.vec, out |-> result]

CallTryFromVec2 ==
    /\ calc.fn = "vector"
    /\ calc' = Converted("try_from_vec2",
                         PositionTryFromVec2(<<calc.vec[1], calc.vec[2]>>))
    /\ UNCHANGED <<app, iter>>

CallTryFromVec3 ==
    /\ calc.fn = "vector"
    /\ calc' = Converted("try_from_vec3", PositionTryFromVec3(calc.vec))
    /\ UNCHANGED <<app, iter>>

CallTryFromTransform ==
    /\ calc.fn = "vector"
    /\ calc' = Converted("try_from_transform",
                         PositionTryFromTransform([translation |-> calc.vec]))
    /\ UNCHANGED <<app, iter>>

CallTryFromGlobalTransform ==
    /\ calc.fn = "vector"
    /\ calc' = Converted("try_from_global_transform",
                         PositionTryFromGlobalTransform([translation |-> calc.vec]))
    /\ UNCHANGED <<app, iter>>

InitPos ==
    /\ InitApp
    /\ has = [e \in Entities |-> {"T", "R", "D", "P"}]
    /\ ~kinematics
    /\ calc \in PositionArgs \cup VectorArgs
    /\ iter = NoPass

NextPos ==
    \/ CallDirectionTo
    \/ CallDirectionFrom
    \/ CallRotationFrom
    \/ CallAdd
    \/ CallSub
    \/ CallNeighbors
    \/ CallNeighborDirections
    \/ CallTryFromVec2
    \/ CallTryFromVec3
    \/ CallTryFromTransform
    \/ CallTryFromGlobalTransform

SpecPos == InitPos /\ [][NextPos]_vars

\* ------------------------------------------- the loops, entity by entity
\* writes of the user's systems before and between the cycles of SpecWorld
MaxWorldOps == 2

\* the entities of a world with more than one
World == {"e1", "e2"}

\* what the entities of that world are spawned with: the whole TwoDBundle, or
\* a Position alone, next to the Transform
WorldArchetypes == {{"T", "R", "D", "P"}, {"T", "P"}}

\* the fields the user's systems write, with the values they write
UserWrites ==
    ({"R"} \X Rotations) \cup ({"D"} \X Directions) \cup ({"Tq"} \X Quats)
        \cup ({"Px", "Py"} \X Coords) \cup ({"Tx", "Ty"} \X UserFloats)

\* the item of a query whose change flags are those of every entity
Item_AnyChanged(e) ==
    [v |-> iter.val[e], d |-> UNION {iter.dirty[x] : x \in World},
     w |-> {}, n |-> {}]

\* the item of a query for entity e: its own components and change flags
Item(e) == [v |-> iter.val[e], d |-> iter.dirty[e], w |-> {}, n |-> {}]

\* the body of the loop of system sys, for an item of an entity with the
\* components h (an entity the query does not match is not visited)
LoopBody(sys, h, item) ==
    IF sys = "SDR"
    THEN IF MatchesSyncDirRot(h) THEN SyncDirRotEntity(item) ELSE item
    ELSE IF MatchesSyncTransform(h) THEN SyncTransformEntity(item, h) ELSE item

\* a user's system writes a component of an entity, outside the stage
WorldUserWrite ==
    /\ iter.sys = "none"
    /\ iter.ran = {}
    /\ iter.budget > 0
    /\ \E e \in World, u \in UserWrites :
          /\ CompOf(u[1]) \in iter.has[e]
          /\ LET written == [iter EXCEPT !.val[e][u[1]] = u[2],
                                         !.dirty[e] = Mark(@, CompOf(u[1])),
                                         !.budget = @ - 1]
             IN  iter' = [written EXCEPT
                             !.start = [val |-> written.val, dirty |-> written.dirty]]
    /\ UNCHANGED <<app, calc>>

\* a reconciling system starts: for ... in query.iter_mut()
BeginLoop ==
    /\ iter.sys = "none"
    /\ \E sys \in {"SDR", "ST"} \ iter.ran :
          iter' = [iter EXCEPT !.sys = sys, !.done = {},
                               !.start = [val |-> iter.val, dirty |-> iter.dirty]]
    /\ UNCHANGED <<app, calc>>

\* one iteration of the loop, for an entity not yet visited, in any order
LoopIteration ==
    /\ iter.sys \in {"SDR", "ST"}
    /\ \E e \in World \ iter.done :
          LET out == LoopBody(iter.sys, iter.has[e], Item(e))
          IN  iter' = [iter EXCEPT !.val[e] = out.v,
                                   !.dirty[e] = out.d,
                                   !.done = @ \cup {e}]
    /\ UNCHANGED <<app, calc>>

\* the system returns: its change ticks move past every write
EndLoop ==
    /\ iter.sys \in {"SDR", "ST"}
    /\ iter.done = World
    /\ LET cleared == [e \in World |-> ClearFlags(iter.dirty[e], iter.sys)]
       IN  iter' = [iter EXCEPT !.sys = "none",
                                !.ran = @ \cup {iter.sys},
                                !.dirty = cleared,
                                !.done = {},
                                !.start = [val |-> iter.val, dirty |-> cleared]]
    /\ UNCHANGED <<app, calc>>

\* both reconciling systems have run
WorldEndCycle ==
    /\ iter.sys = "none"
    /\ iter.ran = {"SDR", "ST"}
    /\ iter' = [iter EXCEPT !.ran = {}]
    /\ UNCHANGED <<app, calc>>

\* the entities as spawned, every component added and so changed
InitWorld ==
    /\ InitApp
    /\ has = [e \in Entities |-> {"T", "R", "D", "P"}]
    /\ ~kinematics
    /\ kinematics_state = "None"
    /\ calc = NoCall
    /\ \E h \in [World -> WorldArchetypes] :
          LET spawned == [val |-> [e \in World |-> DefaultVal],
                          dirty |-> [e \in World |->
                                        {fl \in ReadFlags : fl[2] \in h[e]}]]
          IN  iter = [sys |-> "none", has |-> h,
                      val |-> spawned.val, dirty |-> spawned.dirty,
                      done |-> {}, start |-> spawned, ran |-> {},
                      budget |-> MaxWorldOps]

NextWorld ==
    \/ WorldUserWrite
    \/ BeginLoop
    \/ LoopIteration
    \/ EndLoop
    \/ WorldEndCycle

SpecWorld == InitWorld /\ [][NextWorld]_vars

\* ------------------------------------------------------------------- claims
SawBoth(e, sys, c1, c2) == {<<sys, c1>>, <<sys, c2>>} \subseteq obs[e]

\* C1: when sync_direction_and_rotation finds both the Rotation and the
\* Direction of an entity changed and inconsistent, it leaves Rotation as it
\* was and sets Direction to Direction::from(Rotation).
C1_RotationWins ==
    [][sync_direction_and_rotation =>
         \A e \in Entities :
            ( /\ MatchesSyncDirRot(has[e])
              /\ {<<"SDR", "R">>, <<"SDR", "D">>} \subseteq dirty[e]
              /\ val[e].D # DirectionFromRotation(val[e].R) )
            => /\ val'[e].R = val[e].R
               /\ val'[e].D = DirectionFromRotation(val[e].R)
               /\ val'[e].D # val[e].D]_vars

C1_Witness ==
    \E e \in Entities :
        /\ "SDR" \in ran
        /\ SawBoth(e, "SDR", "R", "D")
        /\ <<e, "SDR", "D">> \in cycleWrites
        /\ val[e].D = DirectionFromRotation(val[e].R)

\* C2: in every cycle sync_transform_with_2d starts only after
\* sync_direction_and_rotation has run.
C2_SyncTransformAfterSyncDirRot ==
    [][sync_transform_with_2d => "SDR" \in ran]_vars

\* C3: a cycle (SyncDirectionRotation, then SyncTransform) that follows a
\* cycle with no external mutation in between writes nothing.
C3_SecondRunWritesNothing ==
    (phase = "stage" /\ ran = StageSystems /\ settled >= 1) => cycleWrites = {}

\* C4: once external mutation has stopped, the cycles reach one that writes
\* no field, and no later cycle writes one: every cycle from the fourth after
\* the last mutation on is such a cycle, whatever the order of the systems.
C4_Converges == (phase = "stage" /\ settled >= 3) => cycleWrites = {}

C4_Witness ==
    /\ settled >= 3
    /\ phase = "stage"
    /\ ran = StageSystems
    /\ \E e \in Entities :
          /\ {"T", "R", "D"} \subseteq has[e]
          /\ val[e].R # NORTH
          /\ val[e].Tq = QuatFromRotation(val[e].R)
          /\ val[e].D = DirectionFromRotation(val[e].R)

BothChanged(e, comp) == {<<"ST", comp>>, <<"ST", "T">>} \subseteq dirty[e]

\* C5: when sync_transform_with_2d finds a 2D component and the Transform
\* both changed, the Transform field ends as the conversion of the 2D
\* component and the 2D component keeps its value; for each of Rotation,
\* Direction and Position.
C5_TwoDWinsOverTransform ==
    [][sync_transform_with_2d =>
         \A e \in Entities :
            MatchesSyncTransform(has[e]) =>
               /\ ("R" \in has[e] /\ BothChanged(e, "R")) =>
                     /\ val'[e].Tq = QuatFromRotation(val[e].R)
                     /\ val'[e].R = val[e].R
               /\ ("D" \in has[e] /\ BothChanged(e, "D")) =>
                     /\ val'[e].Tq = QuatFromDirection(val[e].D)
                     /\ val'[e].D = val[e].D
               /\ ("P" \in has[e] /\ BothChanged(e, "P")) =>
                     /\ val'[e].Tx = IntoF32(val[e].Px)
                     /\ val'[e].Ty = IntoF32(val[e].Py)
                     /\ val'[e].Px = val[e].Px
                     /\ val'[e].Py = val[e].Py]_vars

PullsPosition(e) ==
    /\ MatchesSyncTransform(has[e])
    /\ "P" \in has[e]
    /\ <<"ST", "P">> \notin dirty[e]
    /\ <<"ST", "T">> \in dirty[e]

\* C6: when the translation changed and Position did not, each axis of
\* Position ends as the conversion of its own translation axis, where that
\* conversion succeeds.
C6_PullPerAxis ==
    [][sync_transform_with_2d =>
         \A e \in Entities :
            PullsPosition(e) =>
               /\ try_from_f32(val[e].Tx).ok =>
                     val'[e].Px = try_from_f32(val[e].Tx).val
               /\ try_from_f32(val[e].Ty).ok =>
                     val'[e].Py = try_from_f32(val[e].Ty).val]_vars

\* C7: when the x translation cannot be converted and the y translation can,
\* the pull leaves position.x alone and still sets position.y from
\* translation.y.
C7_AxisFailureIsolation ==
    [][sync_transform_with_2d =>
         \A e \in Entities :
            ( /\ PullsPosition(e)
              /\ ~try_from_f32(val[e].Tx).ok
              /\ try_from_f32(val[e].Ty).ok )
            => /\ val'[e].Px = val[e].Px
               /\ val'[e].Py = try_from_f32(val[e].Ty).val]_vars

\* C8: an entity with a Transform and a Direction and neither Rotation nor
\* Position is reconciled: a changed Direction sets the host rotation, else
\* a changed Transform sets the Direction.
C8_DirectionOnlyEntity ==
    [][sync_transform_with_2d =>
         \A e \in Entities :
            has[e] = {"T", "D"} =>
               IF <<"ST", "D">> \in dirty[e]
               THEN val'[e].Tq = QuatFromDirection(val[e].D)
               ELSE <<"ST", "T">> \in dirty[e] =>
                       val'[e].D = DirectionFromQuat(val[e].Tq)]_vars

\* C9: no step of the reconciliation changes the z of the translation.
C9_DepthUntouched ==
    [][(sync_direction_and_rotation \/ sync_transform_with_2d) =>
          \A e \in Entities : val'[e].Tz = val[e].Tz]_vars

C9_Witness ==
    \E e \in Entities :
        /\ val[e].Tz # 0
        /\ <<e, "ST", "Tx">> \in cycleWrites

\* C10: the kinematics systems of a cycle run before
\* sync_direction_and_rotation, and what they integrated is reconciled in
\* that cycle: at its end the host translation is the integrated Position.
C10_KinematicsSeenSameCycle ==
    /\ ("SDR" \in ran /\ phase = "stage" /\ KinematicsShouldRun)
          => KinematicsSystems \subseteq ran
    /\ (phase = "stage" /\ ran = StageSystems /\ "LinKin" \in ran) =>
          \A e \in Entities :
             {"T", "P"} \subseteq has[e] =>
                /\ val[e].Tx = IntoF32(val[e].Px)
                /\ val[e].Ty = IntoF32(val[e].Py)

\* the functions that reduce the delta of two positions to an orientation
DeltaFns == {"direction_to", "direction_from", "rotation_from"}

\* the delta a function of DeltaFns converts, as the Vec2 it is converted from
DeltaVec ==
    PositionIntoVec2(calc.kind,
                     IF calc.fn = "direction_to" THEN sub(calc.b, calc.a)
                                                 ELSE sub(calc.a, calc.b))

\* C11 (as stated): direction_to, direction_from and rotation_from return
\* NearlySingularConversion exactly when the two positions are equal, and Ok
\* for every pair of different positions.
C11_SingularExactlyWhenEqual ==
    calc.fn \in DeltaFns => (calc.out.ok <=> calc.a # calc.b)

\* C11 (amended): the three functions fail for equal positions, and fail
\* exactly when the delta of the positions, as a Vec2, is shorter than epsilon;
\* for a discrete coordinate type that is exactly when the positions are equal.
C11_SingularIffDeltaBelowEpsilon ==
    calc.fn \in DeltaFns =>
        /\ calc.a = calc.b => ~calc.out.ok
        /\ calc.out.ok <=> ~NearlySingular(DeltaVec)
        /\ calc.kind = "OrthogonalGrid" => (calc.out.ok <=> calc.a # calc.b)

\* two different f32 positions closer than epsilon: the conversion fails
C11_Witness ==
    /\ calc.fn = "direction_to"
    /\ calc.kind = "f32"
    /\ calc.a # calc.b
    /\ ~calc.out.ok

\* C12: Position + Position and Position - Position are computed coordinate
\* by coordinate, and Position::default() is the identity of both: p + default,
\* default + p and p - default are p.
C12_ComponentwiseWithIdentity ==
    /\ calc.fn = "add" =>
          /\ calc.out.x = calc.a.x + calc.b.x
          /\ calc.out.y = calc.a.y + calc.b.y
          /\ calc.b = PositionDefault => calc.out = calc.a
          /\ calc.a = PositionDefault => calc.out = calc.b
    /\ calc.fn = "sub" =>
          /\ calc.out.x = calc.a.x - calc.b.x
          /\ calc.out.y = calc.a.y - calc.b.y
          /\ calc.b = PositionDefault => calc.out = calc.a

\* a position off both axes, less the default position, is itself
C12_Witness ==
    /\ calc.fn = "sub"
    /\ calc.b = PositionDefault
    /\ calc.a.x # 0 /\ calc.a.y # 0
    /\ calc.out = calc.a

\* the Direction constants, clockwise from north
CardinalDirections ==
    <<DirectionFromRotation(NORTH), DirectionFromRotation(EAST),
      DirectionFromRotation(SOUTH), DirectionFromRotation(WEST)>>

BothChangedInconsistent(e) ==
    /\ {"T", "R", "D"} \subseteq has[e]
    /\ SawBoth(e, "SDR", "R", "D")
    /\ SawBoth(e, "ST", "R", "D")
    /\ <<e, "SDR", "D">> \in cycleWrites

\* C14: when the Rotation and the Direction of an entity with a Transform are
\* both changed to inconsistent values in one cycle, the Transform's rotation
\* at the end of the cycle is the conversion of the Rotation.
C14_RotationWinsInTransform ==
    \A e \in Entities :
        (phase = "stage" /\ ran = StageSystems /\ BothChangedInconsistent(e))
            => val[e].Tq = QuatFromRotation(val[e].R)

\* such a cycle ends with the Transform facing where the new Rotation does
C14_Witness ==
    \E e \in Entities :
        /\ phase = "stage" /\ ran = StageSystems /\ BothChangedInconsistent(e)
        /\ val[e].R # NORTH
        /\ val[e].Tq = QuatFromRotation(val[e].R)

\* C15: no assignment made by sync_direction_and_rotation or by
\* sync_transform_with_2d stores the value the field already holds (noops
\* collects such assignments).
C15_NoWriteOfSameValue == noops = {}

\* one run of sync_transform_with_2d has assigned the Transform's rotation and
\* an axis of its translation, each to a new value
C15_Witness ==
    \E e \in Entities :
        /\ <<e, "ST", "Tq">> \in cycleWrites
        /\ <<e, "ST", "Ty">> \in cycleWrites
        /\ noops = {}

\* sync_direction_and_rotation is about to run and finds neither the Rotation
\* nor the Direction of e changed
NeitherChanged(e) ==
    /\ CanStart("SDR")
    /\ MatchesSyncDirRot(has[e])
    /\ <<"SDR", "R">> \notin dirty[e]
    /\ <<"SDR", "D">> \notin dirty[e]

OnlyDirectionChanged(e) ==
    /\ CanStart("SDR")
    /\ MatchesSyncDirRot(has[e])
    /\ <<"SDR", "D">> \in dirty[e]
    /\ <<"SDR", "R">> \notin dirty[e]

\* C17: a run of sync_direction_and_rotation that finds only the Direction
\* flag of an entity set leaves Rotation equal to Rotation::from(Direction)
\* and leaves the Direction as it was.
C17_DirectionOnlySetsRotation ==
    [][\A e \in Entities :
          (OnlyDirectionChanged(e) /\ sync_direction_and_rotation)
              => /\ val'[e].R = RotationFromDirection(val[e].D)
                 /\ val'[e].D = val[e].D]_vars

\* the run has seen only the Direction flag and has assigned the Rotation
C17_Witness ==
    \E e \in Entities :
        /\ <<"SDR", "D">> \in obs[e]
        /\ <<"SDR", "R">> \notin obs[e]
        /\ <<e, "SDR", "R">> \in cycleWrites
        /\ val[e].R # NORTH
        /\ val[e].R = RotationFromDirection(val[e].D)

\* sync_transform_with_2d is about to run and finds neither the Position nor
\* the Transform of e changed: no axis of the translation was written
PositionChannelQuiet(e) ==
    /\ CanStart("ST")
    /\ MatchesSyncTransform(has[e])
    /\ "P" \in has[e]
    /\ <<"ST", "P">> \notin dirty[e]
    /\ <<"ST", "T">> \notin dirty[e]

\* C18: a run of sync_transform_with_2d that finds neither the Position nor
\* the translation changed does not assign the Position, even when it finds
\* the Rotation or the Direction changed and pushes it into the Transform's
\* rotation.
C18_PositionChannelIndependent ==
    [][\A e \in Entities :
          (PositionChannelQuiet(e) /\ sync_transform_with_2d)
              => /\ val'[e].Px = val[e].Px
                 /\ val'[e].Py = val[e].Py]_vars

\* in the cycle that has just run, sync_transform_with_2d found the Transform
\* of e changed and neither its Rotation nor its Direction, and no kinematics
\* turned the Rotation
OnlyTransformChanged(e) ==
    /\ phase = "stage" /\ ran = StageSystems
    /\ {"T", "R", "D"} \subseteq has[e]
    /\ <<"ST", "T">> \in obs[e]
    /\ <<"ST", "R">> \notin obs[e]
    /\ <<"ST", "D">> \notin obs[e]
    /\ "AngKin" \notin ran

\* C19: a cycle in which only the Transform changed ends with the Rotation
\* equal to the planar angle of the Transform's rotation and the Direction
\* equal to the direction of that rotation, and the Transform's rotation is
\* not assigned.
C19_PullFromTransform ==
    \A e \in Entities :
        OnlyTransformChanged(e)
            => /\ val[e].R = RotationFromQuat(val[e].Tq).val
               /\ val[e].D = DirectionFromQuat(val[e].Tq)
               /\ <<e, "ST", "Tq">> \notin cycleWrites

\* a Transform turned out of the plane has been pulled: the Rotation and the
\* Direction were assigned and the tilted rotation was kept
C19_Witness ==
    \E e \in Entities :
        /\ OnlyTransformChanged(e)
        /\ val[e].Tq = TiltedEastQuat
        /\ <<e, "ST", "R">> \in cycleWrites
        /\ <<e, "ST", "D">> \in cycleWrites
        /\ val[e].R = EAST

\* the conversions of a translation into a Position
TryFromFns == {"try_from_vec2", "try_from_vec3", "try_from_transform",
               "try_from_global_transform"}

\* C20 (as stated): when the conversion of one axis of the vector fails, the
\* conversion into a Position is not aborted: a Position is returned whose
\* other axis is the converted one.
C20_FailedAxisDoesNotAbort ==
    calc.fn \in TryFromFns =>
        LET x == try_from_f32(calc.vec[1])
            y == try_from_f32(calc.vec[2])
        IN  /\ (~x.ok /\ y.ok) => (calc.out.ok /\ calc.out.val.y = y.val)
            /\ (x.ok /\ ~y.ok) => (calc.out.ok /\ calc.out.val.x = x.val)

\* C20 (amended): the conversion of a Vec2, Vec3, Transform or GlobalTransform
\* into a Position fails as a whole when the conversion of either axis fails,
\* and otherwise returns the Position of the two converted axes.
C20_ConversionIsAllOrNothing ==
    calc.fn \in TryFromFns =>
        LET x == try_from_f32(calc.vec[1])
            y == try_from_f32(calc.vec[2])
        IN  /\ calc.out.ok <=> (x.ok /\ y.ok)
            /\ calc.out.ok => calc.out.val = [x |-> x.val, y |-> y.val]

\* a Transform whose y converts and whose x does not: no Position is returned
C20_Witness ==
    /\ calc.fn = "try_from_transform"
    /\ ~try_from_f32(calc.vec[1]).ok
    /\ try_from_f32(calc.vec[2]).ok
    /\ ~calc.out.ok

\* C21: the kinematics systems run in a cycle exactly when the plugin's
\* kinematics flag is set and kinematics_state is None or equal to the current
\* state of the application; the two reconciling systems run in every cycle.
C21_KinematicsGating ==
    [][EndCycle =>
          LET gate == /\ kinematics
                      /\ (kinematics_state = "None" \/ kinematics_state = current_state)
          IN  /\ {"SDR", "ST"} \subseteq ran
              /\ "LinKin" \in ran <=> gate
              /\ "AngKin" \in ran <=> gate]_vars

\* a cycle of a plugin with kinematics bound to a state the application has
\* left: both reconciling systems have run, no kinematics system has
C21_Witness ==
    /\ phase = "stage"
    /\ kinematics
    /\ kinematics_state = "Playing"
    /\ current_state = "Paused"
    /\ ran = {"SDR", "ST"}

\* C22: a.direction_to(b) is b.direction_from(a), value or error;
\* a.rotation_from(b) converts the delta a - b that a.direction_from(b)
\* converts: it fails when direction_from fails, is the Rotation of a - b,
\* and on the eight compass points it is the Rotation of that Direction.
C22_ToIsFromSwapped ==
    /\ calc.fn = "direction_to" =>
          calc.out = direction_from(calc.kind, calc.b, calc.a)
    /\ calc.fn = "direction_from" =>
          calc.out = direction_to(calc.kind, calc.b, calc.a)
    /\ calc.fn = "rotation_from" =>
          LET d == direction_from(calc.kind, calc.a, calc.b)
          IN  /\ calc.out.ok <=> d.ok
              /\ calc.out = PositionTryIntoRotation(calc.kind, sub(calc.a, calc.b))
              /\ (calc.out.ok /\ calc.out.val % 450 = 0)
                     => DirectionFromRotation(calc.out.val) = d.val

\* direction_to has returned a Direction off the axes, which is the one
\* direction_from returns with the positions swapped and not the one it
\* returns with the positions as they are
C22_Witness ==
    /\ calc.fn = "direction_to"
    /\ calc.out.ok
    /\ calc.out.val[1] # 0 /\ calc.out.val[2] # 0
    /\ calc.out = direction_from(calc.kind, calc.b, calc.a)
    /\ calc.out # direction_from(calc.kind, calc.a, calc.b)

\* the item of entity e as it was when the running system started
StartItem(e) ==
    [v |-> iter.start.val[e], d |-> iter.start.dirty[e], w |-> {}, n |-> {}]

\* C23: while a reconciling system loops over the entities, in whatever order,
\* every entity already visited holds what the loop body makes of that
\* entity's own components and change flags as they were when the system
\* started, and every entity not yet visited is as it was; so the state after
\* the loop does not depend on the order of the visits.
C23_PerEntity ==
    iter.sys \in {"SDR", "ST"} =>
        \A e \in World :
            LET expected == LoopBody(iter.sys, iter.has[e], StartItem(e))
            IN  IF e \in iter.done
                THEN iter.val[e] = expected.v /\ iter.dirty[e] = expected.d
                ELSE /\ iter.val[e] = iter.start.val[e]
                     /\ iter.dirty[e] = iter.start.dirty[e]

\* sync_transform_with_2d has visited both entities and has written to both,
\* leaving them with different values
C23_Witness ==
    /\ iter.sys = "ST"
    /\ iter.done = World
    /\ \A e \in World : iter.val[e] # iter.start.val[e]
    /\ iter.val["e1"] # iter.val["e2"]

====
